---- MODULE Spec2Model ----
(***************************************************************************)
(* Model of the Financial Insights Dashboard (src/app.py).                 *)
(*                                                                         *)
(* The program is a Streamlit script: every user interaction with a widget *)
(* re-executes the whole script top to bottom.  The state is the memoized  *)
(* base table, the widget values, and what the last run put on the page.   *)
(* One action per widget; each action is the widget change followed by the *)
(* complete re-run of the script.                                          *)
(*                                                                         *)
(* A table (pandas DataFrame) is a sequence of records.  Cell values are   *)
(* integers (Year, Sales, Profit) or strings (all other columns); a        *)
(* missing cell is NaN in a numeric column and NaNStr in a text column.    *)
(* Sums are exact integer sums; quotients are exact reduced fractions, so  *)
(* floating-point rounding is not modelled.                                *)
(***************************************************************************)
EXTENDS Integers, Sequences, FiniteSets, TLC

VARIABLES
    cache,            \* the table memoized by @st.cache_data for load_data()
    df,               \* what the name df is bound to at the end of the last run
    year_filter,      \* value of the Year multiselect (a set)
    country_filter,   \* value of the Country multiselect
    segment_filter,   \* value of the Segment multiselect
    session_state,    \* values of the six keyed selectboxes
    top_profit_df,    \* result of sort_values(...).head(top_n), row 2 left
    country_sales_df, \* result of the sort_values of row 2 right
    top_products_df,  \* result of sort_values(...).head(top_products_n)
    metrics,          \* the st.metric values of row 1: <<>> or <<record>>
    page              \* per chart section: "chart", "no_data", "error", "not_run"

vars == <<cache, df, year_filter, country_filter, segment_filter, session_state,
          top_profit_df, country_sales_df, top_products_df, metrics, page>>

-----------------------------------------------------------------------------
(* Cell values *)

NaN == -1

NaNStr == "NaN"

None == "None"

NumericCols == {"Year", "Sales", "Profit"}

\* Python's order on the strings that occur in the model's tables.
StrOrder ==
    <<"A", "B", "DE", "FR", "Feb", "High", "Jan", "Low",
      "P1", "P2", "P3", "P4", "P5", "P6", "P7", "P8", "UK", "US">>

StrRank(s) == CHOOSE i \in 1..Len(StrOrder) : StrOrder[i] = s

isna(c, v) == IF c \in NumericCols THEN v = NaN ELSE v = NaNStr

\* Python's < on two non-missing values of column c.
less(c, a, b) == IF c \in NumericCols THEN a < b ELSE StrRank(a) < StrRank(b)

Range(s) == {s[i] : i \in 1..Len(s)}

Row(y, c, s, p, sa, pr, b, m) ==
    [Year |-> y, Country |-> c, Segment |-> s, Product |-> p,
     Sales |-> sa, Profit |-> pr, DiscountBand |-> b, MonthName |-> m]

-----------------------------------------------------------------------------
(* pandas and Python primitives *)

\* Series.unique(): the distinct values of a column, missing value included.
unique(t, c) == {t[i][c] : i \in 1..Len(t)}

\* Series.dropna().unique()
dropna_unique(t, c) == {v \in unique(t, c) : ~isna(c, v)}

\* sorted(values) on non-missing values of column c.
RECURSIVE sorted(_, _)
sorted(c, S) ==
    IF S = {} THEN <<>>
    ELSE LET m == CHOOSE x \in S : \A y \in S \ {x} : less(c, x, y)
         IN  <<m>> \o sorted(c, S \ {m})

\* sorted() raises TypeError when it has to compare a float nan with a str.
sorted_raises(c, S) == c \notin NumericCols /\ NaNStr \in S /\ Cardinality(S) > 1

\* Series.isin(values): NaN matches only a NaN listed in values.
isin(v, values) == v \in values

\* Series == scalar: elementwise equality; a missing value equals nothing.
eq(c, v, scalar) == ~isna(c, v) /\ ~isna(c, scalar) /\ v = scalar

\* df[mask]: the rows whose mask entry is True, in their original order.
RECURSIVE bool_index(_, _)
bool_index(t, mask) ==
    IF t = <<>> THEN <<>>
    ELSE (IF mask[1] THEN <<t[1]>> ELSE <<>>) \o bool_index(Tail(t), Tail(mask))

\* df.head(n)
head(t, n) == IF Len(t) <= n THEN t ELSE SubSeq(t, 1, n)

\* The key of row r for group-by columns by (a sequence of column names).
key_of(r, by) == [c \in Range(by) |-> r[c]]

has_key(r, by) == \A c \in Range(by) : ~isna(c, r[c])

\* Lexicographic order of two group keys.
key_less(by, k1, k2) ==
    \E i \in 1..Len(by) :
        /\ \A j \in 1..(i - 1) : k1[by[j]] = k2[by[j]]
        /\ less(by[i], k1[by[i]], k2[by[i]])

RECURSIVE sorted_keys(_, _)
sorted_keys(by, S) ==
    IF S = {} THEN <<>>
    ELSE LET m == CHOOSE k \in S : \A o \in S \ {k} : key_less(by, k, o)
         IN  <<m>> \o sorted_keys(by, S \ {m})

\* Mutant: groupby(by, sort=False): the keys in order of first appearance.
RECURSIVE group_keys_unsorted(_, _)
group_keys_unsorted(t, by) ==
    IF t = <<>> THEN <<>>
    ELSE LET before == group_keys_unsorted(SubSeq(t, 1, Len(t) - 1), by)
             r == t[Len(t)]
         IN  IF has_key(r, by) /\ key_of(r, by) \notin Range(before)
             THEN Append(before, key_of(r, by))
             ELSE before

\* groupby(by) with the defaults sort=True, dropna=True: the distinct keys of
\* the rows that have no missing key column, in ascending key order.
group_keys(t, by) ==
    sorted_keys(by, {key_of(t[i], by) : i \in {j \in 1..Len(t) : has_key(t[j], by)}})

\* The rows of one group, in table order.
group_rows(t, by, k) ==
    bool_index(t, [i \in 1..Len(t) |-> \A c \in Range(by) : eq(c, t[i][c], k[c])])

\* Mutant: .first() in place of .sum(): the group's first non-missing value.
RECURSIVE first_col(_, _)
first_col(g, c) ==
    IF g = <<>> THEN 0
    ELSE IF isna(c, g[1][c]) THEN first_col(Tail(g), c) ELSE g[1][c]

\* .sum() of one column of one group: left to right, missing values skipped.
RECURSIVE sum_col(_, _)
sum_col(g, c) ==
    IF g = <<>> THEN 0
    ELSE (IF isna(c, g[1][c]) THEN 0 ELSE g[1][c]) + sum_col(Tail(g), c)

RECURSIVE count_col(_, _)
count_col(g, c) ==
    IF g = <<>> THEN 0
    ELSE (IF isna(c, g[1][c]) THEN 0 ELSE 1) + count_col(Tail(g), c)

Abs(x) == IF x < 0 THEN -x ELSE x

RECURSIVE gcd(_, _)
gcd(a, b) == IF b = 0 THEN a ELSE gcd(b, a % b)

\* A float: an exact reduced fraction, or one of IEEE's inf, -inf, nan.
finite(n, d) ==
    LET g == gcd(Abs(n), Abs(d))
        s == IF d < 0 THEN -1 ELSE 1
    IN  [kind |-> "finite", num |-> (s * n) \div g, den |-> (s * d) \div g]

special(k) == [kind |-> k, num |-> 0, den |-> 0]

\* numpy true division a / b of two numbers: no exception on b = 0.
true_divide(a, b) ==
    IF b # 0 THEN finite(a, b)
    ELSE IF a > 0 THEN special("inf")
    ELSE IF a < 0 THEN special("-inf")
    ELSE special("nan")

\* float * 100
times100(x) == IF x.kind = "finite" THEN finite(x.num * 100, x.den) ELSE x

\* .mean() of one column of one group (also Series.mean()): missing values
\* are skipped; nan when nothing is left.
mean_col(g, c) ==
    IF count_col(g, c) = 0 THEN special("nan")
    ELSE finite(sum_col(g, c), count_col(g, c))

\* df.groupby(by, as_index=False)[vals].sum()
groupby_sum(t, by, vals) ==
    LET ks == group_keys(t, by)
    IN  [i \in 1..Len(ks) |->
            [c \in Range(by) \cup vals |->
                IF c \in Range(by) THEN ks[i][c]
                ELSE sum_col(group_rows(t, by, ks[i]), c)]]

\* df.groupby(by, as_index=False)[vals].mean()
groupby_mean(t, by, vals) ==
    LET ks == group_keys(t, by)
    IN  [i \in 1..Len(ks) |->
            [c \in Range(by) \cup vals |->
                IF c \in Range(by) THEN ks[i][c]
                ELSE mean_col(group_rows(t, by, ks[i]), c)]]

\* sort_values(by=c, ascending=False) with the default kind="quicksort",
\* which is not a stable sort: the result is some arrangement of the rows in
\* non-increasing order of c, the order among equal values being unspecified.
\* The set of the arrangements the call can return (rows of t are distinct).
RECURSIVE sort_outcomes(_, _)
sort_outcomes(S, c) ==
    IF S = {} THEN {<<>>}
    ELSE LET top == {r \in S : \A o \in S : o[c] <= r[c]}
         IN  UNION {{<<m>> \o rest : rest \in sort_outcomes(S \ {m}, c)} : m \in top}

sort_values_desc(t, c) == sort_outcomes(Range(t), c)

\* st.selectbox(options, key=...): None for no options; the widget keeps its
\* value across runs while that value is still offered, else the first option.
selectbox(options, prev) ==
    IF options = <<>> THEN None
    ELSE IF prev \in Range(options) THEN prev
    ELSE options[1]

-----------------------------------------------------------------------------
(* The script, section by section *)

TopNOptions == <<5, 10, 15>>

\* load_data(): memoized by @st.cache_data, so every run gets the table that
\* the first run read.
load_data == cache

\* Mutant: the options are built without dropna().
year_options_keepna(t) == sorted("Year", unique(t, "Year"))

year_options(t) == sorted("Year", dropna_unique(t, "Year"))

country_options(t) == sorted("Country", dropna_unique(t, "Country"))

segment_options(t) == sorted("Segment", dropna_unique(t, "Segment"))

\* Mutant: the Segment condition is joined with | instead of &.
apply_filters_or(t, yf, cf, sf) ==
    bool_index(t, [i \in 1..Len(t) |->
                      \/ isin(t[i].Year, yf) /\ isin(t[i].Country, cf)
                      \/ isin(t[i].Segment, sf)])

\* filtered_df = df[isin(Year) & isin(Country) & isin(Segment)]
apply_filters(t, yf, cf, sf) ==
    bool_index(t, [i \in 1..Len(t) |->
                      /\ isin(t[i].Year, yf)
                      /\ isin(t[i].Country, cf)
                      /\ isin(t[i].Segment, sf)])

\* Mutant: the filter result is assigned back to df (df = df[...]).
df_binding_reassigned(t, f) == f

\* The name df is bound once, to load_data(); the filter binds its result to
\* a new name and no later statement assigns to df or writes into it.
df_binding(t, f) == t

\* df[df[c] == v]
where_eq(t, c, v) == bool_index(t, [i \in 1..Len(t) |-> eq(c, t[i][c], v)])

product_options_of(f) == sorted("Product", dropna_unique(f, "Product"))

sales_trend_of(f, p) == groupby_sum(where_eq(f, "Product", p), <<"Year">>, {"Sales"})

\* The three st.metric values of row 1, shown only for more than one point.
trend_metrics(trend) ==
    IF Len(trend) > 1
    THEN LET sales_change == trend[Len(trend)].Sales - trend[1].Sales
             pct_change == times100(true_divide(sales_change, trend[1].Sales))
         IN  <<[latest |-> trend[Len(trend)].Sales,
                change |-> sales_change,
                pct |-> pct_change,
                average |-> mean_col(trend, "Sales")]>>
    ELSE <<>>

profit_by_segment_country_of(f) == groupby_sum(f, <<"Segment", "Country">>, {"Profit"})

country_product_sales_of(f) == groupby_sum(f, <<"Country", "Product">>, {"Sales"})

product_sales_of(f) == groupby_sum(f, <<"Product">>, {"Sales"})

discount_analysis_of(f) == groupby_mean(f, <<"DiscountBand">>, {"Sales", "Profit"})

monthly_sales_of(f, p) == groupby_sum(where_eq(f, "Product", p), <<"MonthName">>, {"Sales"})

pricing_issue_of(f) == groupby_sum(f, <<"Country">>, {"Sales", "Profit"})

country_dom_of(f, c) == where_eq(country_product_sales_of(f), "Country", c)

\* Line 489 sorts the products without dropna(): it raises TypeError when a
\* missing product and a named product are both present.
seasonal_raises(f) == sorted_raises("Product", unique(f, "Product"))

seasonal_options(f) == sorted("Product", unique(f, "Product"))

\* Mutant: the emptiness test is missing, so X.iloc[0] raises IndexError.
section_unguarded(result) == IF result # <<>> THEN "chart" ELSE "error"

\* "if not X.empty: <chart, and X.iloc[0] where used> else: st.warning(...)"
section(result) == IF result # <<>> THEN "chart" ELSE "no_data"

\* Row 1 has two warnings: no products, or no trend rows.
trend_section(f, p) ==
    IF product_options_of(f) = <<>> THEN "no_data" ELSE section(sales_trend_of(f, p))

\* One execution of the script on table t with the given widget values; ss
\* is the widget state before the run.  The set of results the run can have
\* (one for each outcome of the three unstable sorts).
script(t, yf, cf, sf, ss) ==
    LET f  == apply_filters(t, yf, cf, sf)
        p1 == selectbox(product_options_of(f), ss.insight1_product)
        n2 == selectbox(TopNOptions, ss.insight2_topn)
        c3 == selectbox(sorted("Country", unique(country_product_sales_of(f), "Country")),
                        ss.insight3_country)
        n4 == selectbox(TopNOptions, ss.insight4_topn)
        ex == seasonal_raises(f)
        p6 == IF ex THEN None ELSE selectbox(seasonal_options(f), ss.insight6_product)
        c8 == IF ex THEN None
              ELSE selectbox(sorted("Country", unique(country_product_sales_of(f), "Country")),
                             ss.insight8_country)
        pbsc == profit_by_segment_country_of(f)
        cps  == where_eq(country_product_sales_of(f), "Country", c3)
        ps   == product_sales_of(f)
        m    == trend_metrics(sales_trend_of(f, p1))
        s1   == trend_section(f, p1)
        s5   == section(discount_analysis_of(f))
        s6   == IF ex THEN "error" ELSE section(monthly_sales_of(f, p6))
        s7   == IF ex THEN "not_run" ELSE section(pricing_issue_of(f))
        s8   == IF ex THEN "not_run" ELSE section(country_dom_of(f, c8))
        ss1  == [insight1_product |-> p1, insight2_topn |-> n2, insight3_country |-> c3,
                 insight4_topn |-> n4, insight6_product |-> p6, insight8_country |-> c8]
    IN  { [df |-> df_binding(t, f),
           session_state |-> ss1,
           top_profit_df |-> head(tp, n2),
           country_sales_df |-> cs,
           top_products_df |-> head(tq, n4),
           metrics |-> m,
           page |->
               [trend |-> s1,
                profit |-> section(head(tp, n2)),
                market |-> section(cs),
                top_products |-> section(head(tq, n4)),
                discount |-> s5,
                seasonality |-> s6,
                profitability |-> s7,
                concentration |-> s8]] :
          tp \in sort_values_desc(pbsc, "Profit"),
          cs \in sort_values_desc(cps, "Sales"),
          tq \in sort_values_desc(ps, "Sales") }

\* Widget state of a fresh session: nothing chosen yet.
NewSession ==
    [insight1_product |-> None, insight2_topn |-> TopNOptions[1], insight3_country |-> None,
     insight4_topn |-> TopNOptions[1], insight6_product |-> None, insight8_country |-> None]

-----------------------------------------------------------------------------
(* Values of the last run, as functions of the state *)

filtered_df == apply_filters(df, year_filter, country_filter, segment_filter)

product_options == product_options_of(filtered_df)

product_selected == session_state.insight1_product

sales_trend_df == sales_trend_of(filtered_df, product_selected)

top_n == session_state.insight2_topn

top_products_n == session_state.insight4_topn

profit_by_segment_country == profit_by_segment_country_of(filtered_df)

country_product_sales == country_product_sales_of(filtered_df)

product_sales == product_sales_of(filtered_df)

discount_analysis_df == discount_analysis_of(filtered_df)

monthly_sales_df == monthly_sales_of(filtered_df, session_state.insight6_product)

pricing_issue_df == pricing_issue_of(filtered_df)

country_dom_df == country_dom_of(filtered_df, session_state.insight8_country)

-----------------------------------------------------------------------------
(* Initial states and actions *)

MaxRows == 2

Tables(rows, n) == UNION {[1..k -> rows] : k \in 0..n}

BaseRows ==
    { Row(2020, "US", "A", "P1", 0, 1, "Low", "Jan"),
      Row(2021, "US", "A", "P1", 2, 1, "High", "Feb"),
      Row(2020, "DE", "B", "P2", 1, 2, "Low", "Jan"),
      Row(2021, "DE", "A", NaNStr, 1, 1, "High", "Jan") }

\* The state after the first run on table t: every filter option selected.
FirstRun(t) ==
    \E s \in script(t, Range(year_options(t)), Range(country_options(t)),
                    Range(segment_options(t)), NewSession) :
        /\ cache = t
        /\ df = s.df
        /\ year_filter = Range(year_options(t))
        /\ country_filter = Range(country_options(t))
        /\ segment_filter = Range(segment_options(t))
        /\ session_state = s.session_state
        /\ top_profit_df = s.top_profit_df
        /\ country_sales_df = s.country_sales_df
        /\ top_products_df = s.top_products_df
        /\ metrics = s.metrics
        /\ page = s.page

\* A widget changed: the script runs again from the top.
Rerun(yf, cf, sf, ss) ==
    \E s \in script(load_data, yf, cf, sf, ss) :
        /\ cache' = cache
        /\ df' = s.df
        /\ year_filter' = yf
        /\ country_filter' = cf
        /\ segment_filter' = sf
        /\ session_state' = s.session_state
        /\ top_profit_df' = s.top_profit_df
        /\ country_sales_df' = s.country_sales_df
        /\ top_products_df' = s.top_products_df
        /\ metrics' = s.metrics
        /\ page' = s.page

ChangeYear ==
    \E S \in SUBSET Range(year_options(load_data)) :
        S # year_filter /\ Rerun(S, country_filter, segment_filter, session_state)

ChangeCountry ==
    \E S \in SUBSET Range(country_options(load_data)) :
        S # country_filter /\ Rerun(year_filter, S, segment_filter, session_state)

ChangeSegment ==
    \E S \in SUBSET Range(segment_options(load_data)) :
        S # segment_filter /\ Rerun(year_filter, country_filter, S, session_state)

SelectTrendProduct ==
    \E p \in Range(product_options) :
        /\ p # session_state.insight1_product
        /\ Rerun(year_filter, country_filter, segment_filter,
                 [session_state EXCEPT !.insight1_product = p])

SelectTopN ==
    \E n \in Range(TopNOptions) :
        /\ n # session_state.insight2_topn
        /\ Rerun(year_filter, country_filter, segment_filter,
                 [session_state EXCEPT !.insight2_topn = n])

SelectMarketCountry ==
    \E c \in unique(country_product_sales, "Country") :
        /\ c # session_state.insight3_country
        /\ Rerun(year_filter, country_filter, segment_filter,
                 [session_state EXCEPT !.insight3_country = c])

SelectTopProductsN ==
    \E n \in Range(TopNOptions) :
        /\ n # session_state.insight4_topn
        /\ Rerun(year_filter, country_filter, segment_filter,
                 [session_state EXCEPT !.insight4_topn = n])

\* The widgets below line 489 are on the page only if that line did not raise.
SelectSeasonalProduct ==
    /\ page.seasonality # "error"
    /\ \E p \in unique(filtered_df, "Product") :
        /\ p # session_state.insight6_product
        /\ Rerun(year_filter, country_filter, segment_filter,
                 [session_state EXCEPT !.insight6_product = p])

SelectDominanceCountry ==
    /\ page.concentration # "not_run"
    /\ \E c \in unique(country_product_sales, "Country") :
        /\ c # session_state.insight8_country
        /\ Rerun(year_filter, country_filter, segment_filter,
                 [session_state EXCEPT !.insight8_country = c])

Init == \E t \in Tables(BaseRows, MaxRows) : FirstRun(t)

Next ==
    \/ ChangeYear
    \/ ChangeCountry
    \/ ChangeSegment
    \/ SelectTrendProduct
    \/ SelectTopN
    \/ SelectMarketCountry
    \/ SelectTopProductsN
    \/ SelectSeasonalProduct
    \/ SelectDominanceCountry

Spec == Init /\ [][Next]_vars

-----------------------------------------------------------------------------
(* The same program on other families of base tables.  Each specification  *)
(* starts from the first run on a table of its family and exercises the    *)
(* widgets named in its next-state relation.                               *)

\* Tables that vary the three filtered columns, missing values included.
MaxFilterRows == 3

FilterRows ==
    { Row(2020, "DE", "A", "P1", 1, 1, "Low", "Jan"),
      Row(2021, "US", "A", "P1", 1, 2, "High", "Feb"),
      Row(2020, "US", "B", "P1", 1, 3, "Low", "Jan"),
      Row(NaN, "US", "A", "P1", 1, 2, "Low", "Jan"),
      Row(2020, NaNStr, "A", "P1", 1, 2, "Low", "Jan"),
      Row(2020, "US", NaNStr, "P1", 1, 2, "Low", "Jan") }

InitFilter == \E t \in Tables(FilterRows, MaxFilterRows) : FirstRun(t)

NextFilter ==
    \/ ChangeYear
    \/ ChangeCountry
    \/ ChangeSegment

SpecFilter == InitFilter /\ [][NextFilter]_vars

\* Tables that vary what the aggregations read: several rows per group, a
\* zero first-year total, a missing product, a missing sales value.
MaxAggRows == 3

AggRows ==
    { Row(2020, "US", "A", "P1", 0, 1, "Low", "Jan"),
      Row(2020, "US", "A", "P1", 1, 2, "Low", "Feb"),
      Row(2021, "US", "A", "P1", 2, 3, "High", "Feb"),
      Row(2021, "DE", "A", "P2", 1, 2, "High", "Jan"),
      Row(2020, "US", "A", NaNStr, 1, 1, "Low", "Jan"),
      Row(2021, "US", "A", "P1", NaN, 1, "High", "Feb") }

InitAgg == \E t \in Tables(AggRows, MaxAggRows) : FirstRun(t)

NextAgg ==
    \/ ChangeYear
    \/ SelectTrendProduct

SpecAgg == InitAgg /\ [][NextAgg]_vars

\* Tables with one row per group and more groups than the smallest top-N:
\* row i has the i-th (Segment, Country) key and the i-th product, and its
\* Sales and Profit are i, or i + 1 for the rows listed in TieRows, which
\* then tie with the next group.
MaxGroups == 6

TieRows == {1, 4}

SortSegments == <<"A", "B">>

SortCountries == <<"DE", "FR", "UK", "US">>

SortProducts == <<"P1", "P2", "P3", "P4", "P5", "P6", "P7", "P8">>

SortRow(i, v) ==
    Row(2020, SortCountries[((i - 1) % 4) + 1], SortSegments[((i - 1) \div 4) + 1],
        SortProducts[i], v, v, "Low", "Jan")

SortTables ==
    UNION { { [i \in 1..k |-> SortRow(i, i + b[i])] :
                  b \in {c \in [1..k -> {0, 1}] : \A i \in 1..k : c[i] = 1 => i \in TieRows} } :
            k \in 0..MaxGroups }

InitSort == \E t \in SortTables : FirstRun(t)

NextSort ==
    \/ SelectTopN
    \/ SelectTopProductsN

SpecSort == InitSort /\ [][NextSort]_vars

-----------------------------------------------------------------------------
(* Properties *)

\* The positions of the base table whose Year, Country and Segment are each
\* in the selected set.
Allowed ==
    {i \in 1..Len(df) : /\ df[i].Year \in year_filter
                        /\ df[i].Country \in country_filter
                        /\ df[i].Segment \in segment_filter}

\* The j-th smallest element of a set of positions.
Nth(I, j) == CHOOSE i \in I : Cardinality({k \in I : k <= i}) = j

\* C1: the filtered table holds exactly the rows of the base table whose
\* Year, Country and Segment are each in the selected set, once each and in
\* the base table's order: its j-th row is the j-th allowed row of the base.
FilterIsOrderedSelection ==
    /\ Len(filtered_df) = Cardinality(Allowed)
    /\ \A j \in 1..Len(filtered_df) : filtered_df[j] = df[Nth(Allowed, j)]

\* Two different rows are kept, around a row that has no missing value and
\* is dropped because the user deselected one of its values.
FilterWitness ==
    /\ Len(df) = 3
    /\ Allowed = {1, 3}
    /\ df[1] # df[3]
    /\ df[2].Year # NaN /\ df[2].Country # NaNStr /\ df[2].Segment # NaNStr

\* C8: no row of the filtered table has a missing Year, Country or Segment.
NoMissingInFiltered ==
    \A i \in 1..Len(filtered_df) :
        /\ filtered_df[i].Year # NaN
        /\ filtered_df[i].Country # NaNStr
        /\ filtered_df[i].Segment # NaNStr

\* The default selection (every option selected) on a table that has a row
\* with a missing Year and a row that passes.
NoMissingWitness ==
    /\ \E i \in 1..Len(df) : df[i].Year = NaN
    /\ year_filter = Range(year_options(df))
    /\ country_filter = Range(country_options(df))
    /\ segment_filter = Range(segment_options(df))
    /\ filtered_df # <<>>

\* C6: when the filtered table is empty, every section of the page ends in
\* its "no data" warning (none raises, none is skipped), every intermediate
\* table is empty and no metric is computed.
EmptyPropagates ==
    filtered_df = <<>> =>
        /\ \A sec \in DOMAIN page : page[sec] = "no_data"
        /\ sales_trend_df = <<>> /\ metrics = <<>>
        /\ profit_by_segment_country = <<>> /\ top_profit_df = <<>>
        /\ country_product_sales = <<>> /\ country_sales_df = <<>>
        /\ top_products_df = <<>>
        /\ discount_analysis_df = <<>>
        /\ monthly_sales_df = <<>>
        /\ pricing_issue_df = <<>>
        /\ country_dom_df = <<>>

\* The user emptied one selection on a table that has rows.
EmptyWitness ==
    /\ df # <<>>
    /\ filtered_df = <<>>
    /\ year_filter = {}
    /\ country_filter # {}
    /\ page.trend = "no_data"

\* C7: the base table never changes: after the first run and after every
\* later run it is the table that was loaded and memoized first.
BaseTableNeverChanges ==
    /\ df = cache
    /\ [][df' = df /\ cache' = cache]_vars

\* A filter and both top-N choices have been changed, the filter drops a
\* row of the base table and the aggregations ran on the rest.
BaseTableWitness ==
    /\ df = cache
    /\ filtered_df # <<>>
    /\ Len(filtered_df) < Len(df)
    /\ country_filter # Range(country_options(df))
    /\ top_n # TopNOptions[1]
    /\ top_products_n # TopNOptions[1]
    /\ page.profit = "chart"

\* The sum of column c over the rows of table t at the positions in I,
\* missing values counting as nothing.
RECURSIVE Total(_, _, _)
Total(t, I, c) ==
    IF I = {} THEN 0
    ELSE LET i == CHOOSE k \in I : TRUE
         IN  (IF t[i][c] = NaN THEN 0 ELSE t[i][c]) + Total(t, I \ {i}, c)

AllRows(t) == 1..Len(t)

\* C2: the group totals of a group-by-and-sum add up to the column's sum
\* over the whole filtered table: Sales by Product, Sales and Profit by
\* Country.
SumConservation ==
    /\ Total(product_sales, AllRows(product_sales), "Sales")
           = Total(filtered_df, AllRows(filtered_df), "Sales")
    /\ Total(pricing_issue_df, AllRows(pricing_issue_df), "Sales")
           = Total(filtered_df, AllRows(filtered_df), "Sales")
    /\ Total(pricing_issue_df, AllRows(pricing_issue_df), "Profit")
           = Total(filtered_df, AllRows(filtered_df), "Profit")

\* C3: with two or more points and a first value of 0 the run does not
\* fail and the percent change is not infinity or NaN: it is not shown, or
\* it is a value tagged as absent or as a division by zero.
ZeroBaselineSignalled ==
    (Len(sales_trend_df) >= 2 /\ sales_trend_df[1].Sales = 0) =>
        /\ page.trend = "chart"
        /\ \/ metrics = <<>>
           \/ metrics[1].pct.kind \in {"absent", "DivisionByZero"}

\* C4: for a series of exactly one point the latest value is reported and
\* is that point's value.
SinglePointLatest ==
    Len(sales_trend_df) = 1 =>
        /\ metrics # <<>>
        /\ metrics[1].latest = sales_trend_df[1].Sales

\* The rearrangements of a table's rows.
Rearrangements(t) ==
    { [i \in 1..Len(t) |-> t[f[i]]] :
        f \in {g \in [1..Len(t) -> 1..Len(t)] : \A a, b \in 1..Len(t) : g[a] = g[b] => a = b} }

\* C9: every rearrangement of the filtered table's rows gives the same set
\* of (group key, aggregated value) rows, for the sums over one and over two
\* group-by columns and for the means.
AggregationIgnoresRowOrder ==
    \A p \in Rearrangements(filtered_df) :
        /\ Range(profit_by_segment_country_of(p)) = Range(profit_by_segment_country)
        /\ Range(product_sales_of(p)) = Range(product_sales)
        /\ Range(pricing_issue_of(p)) = Range(pricing_issue_df)
        /\ Range(discount_analysis_of(p)) = Range(discount_analysis_df)

\* Three rows in one group whose Sales differ, in a table of two groups.
AggregationWitness ==
    /\ Len(filtered_df) = 3
    /\ Len(pricing_issue_df) = 1
    /\ Len(discount_analysis_df) = 2
    /\ filtered_df[1].Sales # filtered_df[2].Sales
    /\ filtered_df[1].DiscountBand = filtered_df[3].DiscountBand
    /\ filtered_df[1].Sales # filtered_df[3].Sales

\* The positions of the selected product's rows in the filtered table.
TrendRows == {i \in 1..Len(filtered_df) : filtered_df[i].Product = product_selected}

TrendYears == {filtered_df[i].Year : i \in TrendRows}

YearTotal(y) == Total(filtered_df, {i \in TrendRows : filtered_df[i].Year = y}, "Sales")

\* C10: the trend series has one entry per Year of the selected product's
\* filtered rows, holding that Year's total, in strictly ascending Year
\* order; its last value is the greatest Year's total and last minus first
\* is that total minus the least Year's, which is what the metrics show.
TrendSeriesByYear ==
    /\ Len(sales_trend_df) = Cardinality(TrendYears)
    /\ \A j \in 1..Len(sales_trend_df) :
          /\ sales_trend_df[j].Year \in TrendYears
          /\ sales_trend_df[j].Sales = YearTotal(sales_trend_df[j].Year)
    /\ \A j \in 1..(Len(sales_trend_df) - 1) :
          sales_trend_df[j].Year < sales_trend_df[j + 1].Year
    /\ metrics # <<>> =>
          LET hi == CHOOSE y \in TrendYears : \A z \in TrendYears : z <= y
              lo == CHOOSE y \in TrendYears : \A z \in TrendYears : y <= z
          IN  /\ metrics[1].latest = YearTotal(hi)
              /\ metrics[1].change = YearTotal(hi) - YearTotal(lo)

\* The product's rows come latest Year first, two of them in one Year, and
\* the metrics are shown.
TrendWitness ==
    /\ Cardinality(TrendRows) = 3
    /\ Len(sales_trend_df) = 2
    /\ filtered_df[1].Year > filtered_df[3].Year
    /\ metrics # <<>>
    /\ metrics[1].change # 0

====
